---- MODULE Spec2Model ----
(***************************************************************************)
(* The two-pass XMLTV loader of backend/epg_parser.py: the SAX handlers of *)
(* both passes, the batched writes to the SQLite store, the parse          *)
(* orchestrator and the source lifecycle (process_source, delete_source).  *)
(*                                                                         *)
(* Text is modelled as a sequence of one-character strings, so that        *)
(* str.strip, the "in" substring test and the f-string that builds the     *)
(* program id are computed rather than assumed.  Python's None is the      *)
(* reserved value None below.                                              *)
(***************************************************************************)
EXTENDS Integers, Sequences, FiniteSets, TLC

VARIABLES
    sources,      \* table sources: set of rows
    channels,     \* table channels: set of rows (key id)
    programs,     \* table programs: set of rows (key id)
    pc,           \* where process_source stands: idle, acquire, first, second
    source_url,   \* process_source's argument
    feed,         \* content of the local file being parsed (top-level elements)
    pos,          \* index of the next SAX event of the running pass
    parser,       \* the TwoPassEPGParser object
    chandler,     \* the ChannelHandler object of the first pass
    phandler,     \* the ProgramHandler object of the second pass
    result,       \* value returned by the last process_source call
    runs,         \* history: one record per process_source call
    done,         \* history: store snapshots at the end of the last two calls
    faults,       \* history: how many failures the environment has caused
    env,          \* what the environment offers: urls, feed files, number of calls
    driver        \* the loop over the sources of main / run_parser

vars == <<sources, channels, programs, pc, source_url, feed, pos, parser,
          chandler, phandler, result, runs, done, faults, env, driver>>

(***************************************************************************)
(* Text                                                                    *)
(***************************************************************************)
None == <<"<None>">>

\* Python truthiness of a value that is a str or None.
Truthy(v) == v # None /\ v # <<>>

IsSpace(c) == c \in {" ", "\n", "\t"}

RECURSIVE LStrip(_)
LStrip(s) == IF s # <<>> /\ IsSpace(Head(s)) THEN LStrip(Tail(s)) ELSE s

RECURSIVE RStrip(_)
RStrip(s) ==
    IF s # <<>> /\ IsSpace(s[Len(s)]) THEN RStrip(SubSeq(s, 1, Len(s) - 1)) ELSE s

\* str.strip()
Strip(s) == RStrip(LStrip(s))

\* sub in s
Contains(s, sub) ==
    \E i \in 1..(Len(s) - Len(sub) + 1) : SubSeq(s, i, i + Len(sub) - 1) = sub

\* None where the source holds an element name.
NoName == "<None>"

\* attrs.get(k, d)
Get(attrs, k, d) == IF k \in DOMAIN attrs THEN attrs[k] ELSE d

(***************************************************************************)
(* The document as the SAX parser delivers it.  A feed is a sequence of    *)
(* top-level elements, each with attributes and child elements that carry  *)
(* text.  The field el of an event is the index of the top-level element   *)
(* the event belongs to; no handler reads it.                              *)
(***************************************************************************)
StartEvent(name, attrs, i) ==
    [type |-> "start", name |-> name, attrs |-> attrs, content |-> <<>>, el |-> i]
CharsEvent(content, i) ==
    [type |-> "chars", name |-> "", attrs |-> <<>>, content |-> content, el |-> i]
EndEvent(name, i) ==
    [type |-> "end", name |-> name, attrs |-> <<>>, content |-> <<>>, el |-> i]

ChildEvents(c, i) ==
    <<StartEvent(c.name, c.attrs, i)>>
    \o (IF c.text = <<>> THEN <<>> ELSE <<CharsEvent(c.text, i)>>)
    \o <<EndEvent(c.name, i)>>

RECURSIVE ChildrenEvents(_, _)
ChildrenEvents(cs, i) ==
    IF cs = <<>> THEN <<>> ELSE ChildEvents(Head(cs), i) \o ChildrenEvents(Tail(cs), i)

ElementEvents(e, i) ==
    <<StartEvent(e.name, e.attrs, i)>> \o ChildrenEvents(e.children, i)
    \o <<EndEvent(e.name, i)>>

RECURSIVE EventsFrom(_, _)
EventsFrom(f, i) ==
    IF i > Len(f) THEN <<>> ELSE ElementEvents(f[i], i) \o EventsFrom(f, i + 1)

Events(f) == EventsFrom(f, 1)

(***************************************************************************)
(* Identities                                                              *)
(***************************************************************************)
\* hashlib.md5(source_url).hexdigest(): distinct urls give distinct ids.
SourceId(url) == <<"md5">> \o url

\* source_url.split("/")[-1]; a url is modelled as its "/"-separated parts.
SourceName(url) == url[Len(url)]

\* source_url.startswith("http")
StartsWithHttp(url) == Len(url) >= 1 /\ url[1] = "http:"

\* f"{channel_id}_{start}_{stop}"
ProgramIdNoStop(channel_id, start, stop) ==
    channel_id \o <<"_">> \o start
ProgramId(channel_id, start, stop) ==
    channel_id \o <<"_">> \o start \o <<"_">> \o stop

(***************************************************************************)
(* The store.  Rows carry the columns of init_database's tables; the      *)
(* extra field run of a channel or program row is history: the number of   *)
(* the process_source call whose statement wrote the row last.             *)
(***************************************************************************)
Ids(rows) == {r.id : r \in rows}

\* The columns of a row, without the history field.
ChannelCols(r) == [id |-> r.id, source_id |-> r.source_id, name |-> r.name, icon |-> r.icon]
ProgramCols(r) ==
    [id |-> r.id, channel_id |-> r.channel_id, title |-> r.title,
     description |-> r.description, start |-> r.start, stop |-> r.stop,
     category |-> r.category]

\* ON DELETE CASCADE of channels.source_id: the channels a deleted source takes along.
CascadeChannelsNone(chs, source_id) == {}
CascadeChannels(chs, source_id) == {c \in chs : c.source_id = source_id}

\* ON DELETE CASCADE of programs.channel_id: the programs deleted channels take along.
CascadePrograms(progs, gone) == {p \in progs : p.channel_id \in Ids(gone)}

\* DELETE FROM sources WHERE id = ?  with PRAGMA foreign_keys = ON.
DeleteSourceRowsNoCascade(srcs, chs, progs, source_id) ==
    [sources |-> {s \in srcs : s.id # source_id}, channels |-> chs, programs |-> progs]
DeleteSourceRowsNothing(srcs, chs, progs, source_id) ==
    [sources |-> srcs, channels |-> chs, programs |-> progs]
DeleteSourceRows(srcs, chs, progs, source_id) ==
    LET gone == CascadeChannels(chs, source_id)
    IN  [sources  |-> {s \in srcs : s.id # source_id},
         channels |-> chs \ gone,
         programs |-> progs \ CascadePrograms(progs, gone)]

\* The number of records a handler buffers before it writes them; the source
\* sets 1000 (ChannelHandler.__init__, ProgramHandler.__init__), scaled down here.
batch_size == 2

(***************************************************************************)
(* ChannelHandler: the first pass                                          *)
(***************************************************************************)
NewChannelHandler(source_id) ==
    [source_id       |-> source_id,
     channel_count   |-> 0,
     current_element |-> NoName,
     in_channel      |-> FALSE,
     current_channel |-> <<>>,
     buffer          |-> <<>>,
     channel_batch   |-> <<>>,
     channel_ids     |-> {}]

\* One turn of the loop of _process_channel_batch: INSERT, and UPDATE when the
\* INSERT raises sqlite3.IntegrityError.  ok is FALSE when the UPDATE raises too.
WriteChannelKeepsFirst(chs, srcs, c, run) ==
    IF c.id \notin Ids(chs) /\ c.source_id \in Ids(srcs)
    THEN [ok |-> TRUE, channels |-> chs \cup
             {[id |-> c.id, source_id |-> c.source_id, name |-> c.name,
               icon |-> c.icon, run |-> run]}]
    ELSE [ok |-> TRUE, channels |-> chs]
WriteChannelKeepsIcon(chs, srcs, c, run) ==
    LET old == {r \in chs : r.id = c.id}
        icon == IF \E r \in old : r.icon # None
                THEN (CHOOSE r \in old : TRUE).icon ELSE c.icon
        row == [id |-> c.id, source_id |-> c.source_id, name |-> c.name,
                icon |-> icon, run |-> run]
    IN  IF c.source_id \in Ids(srcs)
        THEN [ok |-> TRUE, channels |-> (chs \ old) \cup {row}]
        ELSE [ok |-> old # {}, channels |-> chs]
WriteChannel(chs, srcs, c, run) ==
    LET row == [id |-> c.id, source_id |-> c.source_id, name |-> c.name,
                icon |-> c.icon, run |-> run]
        taken == c.id \in Ids(chs)
        owner == c.source_id \in Ids(srcs)
    IN  IF ~taken /\ owner
        THEN [ok |-> TRUE, channels |-> chs \cup {row}]
        ELSE IF ~taken
        THEN [ok |-> TRUE, channels |-> chs]
        ELSE IF owner
        THEN [ok |-> TRUE, channels |-> {r \in chs : r.id # c.id} \cup {row}]
        ELSE [ok |-> FALSE, channels |-> chs]

RECURSIVE WriteChannels(_, _, _, _)
WriteChannels(chs, srcs, batch, run) ==
    IF batch = <<>> THEN [ok |-> TRUE, channels |-> chs]
    ELSE LET one == WriteChannel(chs, srcs, Head(batch), run)
         IN  IF one.ok THEN WriteChannels(one.channels, srcs, Tail(batch), run)
             ELSE one

\* _process_channel_batch: the table after it.  fault says the store raises
\* inside the transaction; the except branch then rolls the transaction back.
\* The caller empties channel_batch in both cases.
ProcessChannelBatch(chs, srcs, batch, run, fault) ==
    LET w == WriteChannels(chs, srcs, batch, run)
    IN  IF batch = <<>> \/ fault \/ ~w.ok THEN chs ELSE w.channels

ChannelStartElement(h, name, attrs) ==
    LET h1 == [h EXCEPT !.current_element = name, !.buffer = <<>>]
    IN  IF name = "channel"
        THEN [h1 EXCEPT !.in_channel = TRUE,
                        !.current_channel =
                            [id        |-> Get(attrs, "id", <<>>),
                             source_id |-> h.source_id,
                             name      |-> <<>>,
                             icon      |-> None]]
        ELSE h1

ChannelCharacters(h, content) == [h EXCEPT !.buffer = @ \o content]

\* endElement("icon")
ChannelIcon(h) ==
    IF ~Truthy(h.current_channel.icon) /\ Contains(h.buffer, <<"@", "s", "r", "c">>)
    THEN [h EXCEPT !.current_channel.icon = Strip(h.buffer)]
    ELSE h

\* endElement("channel"), up to the test of the batch's length
ChannelCloseIdNotKept(h) ==
    LET h1 == [h EXCEPT !.in_channel = FALSE]
    IN  IF Truthy(h.current_channel.id)
        THEN [h1 EXCEPT !.channel_batch = Append(@, h.current_channel),
                        !.channel_count = @ + 1]
        ELSE h1
ChannelCloseKeepsIdless(h) ==
    [h EXCEPT !.in_channel = FALSE,
              !.channel_batch = Append(@, h.current_channel),
              !.channel_ids = @ \cup {h.current_channel.id},
              !.channel_count = @ + 1]
ChannelClose(h) ==
    LET h1 == [h EXCEPT !.in_channel = FALSE]
    IN  IF Truthy(h.current_channel.id)
        THEN [h1 EXCEPT !.channel_batch = Append(@, h.current_channel),
                        !.channel_ids = @ \cup {h.current_channel.id},
                        !.channel_count = @ + 1]
        ELSE h1

\* endElement without the write of a full batch
ChannelEndElement(h, name) ==
    IF ~h.in_channel THEN h
    ELSE IF name = "display-name"
    THEN [h EXCEPT !.current_channel.name = Strip(h.buffer)]
    ELSE IF name = "icon" THEN ChannelIcon(h)
    ELSE IF name = "channel" THEN ChannelClose(h)
    ELSE h

\* Whether endElement calls _process_channel_batch after it appended.
ChannelBatchFullLate(h0, h1) ==
    h1.channel_count # h0.channel_count /\ Len(h1.channel_batch) > batch_size
ChannelBatchFull(h0, h1) ==
    h1.channel_count # h0.channel_count /\ Len(h1.channel_batch) >= batch_size

(***************************************************************************)
(* ProgramHandler: the second pass                                         *)
(***************************************************************************)
NewProgramHandler(source_id, channel_ids) ==
    [source_id        |-> source_id,
     channel_ids      |-> channel_ids,
     program_count    |-> 0,
     skipped_programs |-> 0,
     current_element  |-> NoName,
     in_programme     |-> FALSE,
     current_program  |-> <<>>,
     buffer           |-> <<>>,
     program_batch    |-> <<>>]

\* One turn of the loop of _process_program_batch: INSERT OR REPLACE; a row whose
\* channel_id names no channel row raises sqlite3.IntegrityError and is passed over.
WriteProgramKeepsFirst(progs, chs, p, run) ==
    IF p.channel_id \in Ids(chs) /\ p.id \notin Ids(progs)
    THEN progs \cup
            {[id |-> p.id, channel_id |-> p.channel_id, title |-> p.title,
              description |-> p.description, start |-> p.start, stop |-> p.stop,
              category |-> p.category, run |-> run]}
    ELSE progs
WriteProgram(progs, chs, p, run) ==
    LET row == [id |-> p.id, channel_id |-> p.channel_id, title |-> p.title,
                description |-> p.description, start |-> p.start, stop |-> p.stop,
                category |-> p.category, run |-> run]
    IN  IF p.channel_id \in Ids(chs)
        THEN {r \in progs : r.id # p.id} \cup {row}
        ELSE progs

RECURSIVE WritePrograms(_, _, _, _)
WritePrograms(progs, chs, batch, run) ==
    IF batch = <<>> THEN progs
    ELSE WritePrograms(WriteProgram(progs, chs, Head(batch), run), chs, Tail(batch), run)

\* _process_program_batch: the table after it; fault as in ProcessChannelBatch.
ProcessProgramBatchAllOrNone(progs, chs, batch, run, fault) ==
    IF batch = <<>> \/ fault \/ \E i \in 1..Len(batch) : batch[i].channel_id \notin Ids(chs)
    THEN progs
    ELSE WritePrograms(progs, chs, batch, run)
ProcessProgramBatch(progs, chs, batch, run, fault) ==
    IF batch = <<>> \/ fault THEN progs ELSE WritePrograms(progs, chs, batch, run)

\* channel_id in self.channel_ids
KnownChannelAny(channel_ids, channel_id) == TRUE
KnownChannel(channel_ids, channel_id) == channel_id \in channel_ids

\* startElement("programme") for a channel the first pass did not give
SkipProgrammeUncounted(h) == [h EXCEPT !.in_programme = FALSE]
SkipProgrammeClearsCandidate(h) ==
    [h EXCEPT !.in_programme = FALSE, !.skipped_programs = @ + 1,
              !.current_program = <<>>]
SkipProgramme(h) == [h EXCEPT !.in_programme = FALSE, !.skipped_programs = @ + 1]

\* startElement("programme") for a known channel
OpenProgramme(h, attrs) ==
    LET channel_id == Get(attrs, "channel", <<>>)
    IN  [h EXCEPT !.current_program =
            [channel_id  |-> channel_id,
             start       |-> Get(attrs, "start", <<>>),
             stop        |-> Get(attrs, "stop", <<>>),
             title       |-> <<>>,
             description |-> None,
             category    |-> None,
             id          |-> ProgramId(channel_id, Get(attrs, "start", <<>>),
                                       Get(attrs, "stop", <<>>))]]

ProgramStartElement(h, name, attrs) ==
    LET h1 == [h EXCEPT !.current_element = name, !.buffer = <<>>]
        h2 == [h1 EXCEPT !.in_programme = TRUE]
    IN  IF name # "programme" THEN h1
        ELSE IF ~KnownChannel(h.channel_ids, Get(attrs, "channel", <<>>))
        THEN SkipProgramme(h2)
        ELSE OpenProgramme(h2, attrs)

ProgramCharacters(h, content) == [h EXCEPT !.buffer = @ \o content]

\* endElement("title"): the title taken from the buffer
TitleUnstripped(buffer) == buffer
TitleText(buffer) == Strip(buffer)

\* endElement("programme"), up to the test of the batch's length
ProgrammeCloseCountsUntitled(h) ==
    LET h1 == [h EXCEPT !.in_programme = FALSE, !.program_count = @ + 1]
    IN  IF Truthy(Get(h.current_program, "title", None))
        THEN [h1 EXCEPT !.program_batch = Append(@, h.current_program)]
        ELSE h1
ProgrammeClose(h) ==
    LET h1 == [h EXCEPT !.in_programme = FALSE]
    IN  IF Truthy(Get(h.current_program, "title", None))
        THEN [h1 EXCEPT !.program_batch = Append(@, h.current_program),
                        !.program_count = @ + 1]
        ELSE h1

\* endElement without the write of a full batch
ProgramEndElement(h, name) ==
    IF ~h.in_programme THEN h
    ELSE IF name = "title" THEN [h EXCEPT !.current_program.title = TitleText(h.buffer)]
    ELSE IF name = "desc" THEN [h EXCEPT !.current_program.description = Strip(h.buffer)]
    ELSE IF name = "category" THEN [h EXCEPT !.current_program.category = Strip(h.buffer)]
    ELSE IF name = "programme" THEN ProgrammeClose(h)
    ELSE h

\* Whether endElement calls _process_program_batch after it appended.
ProgramBatchFull(h0, h1) ==
    h1.program_count # h0.program_count /\ Len(h1.program_batch) >= batch_size

(***************************************************************************)
(* TwoPassEPGParser                                                        *)
(***************************************************************************)
NewParser(source_id) ==
    [source_id        |-> source_id,
     channel_count    |-> 0,
     program_count    |-> 0,
     skipped_programs |-> 0,
     channel_ids      |-> {}]

\* UPDATE sources SET channel_count = ?, program_count = ? ... WHERE id = ?
\* (last_updated, a wall-clock value, is left out); fault: the except branch.
UpdateSourceStatisticsCountsSkipped(srcs, p, fault) ==
    IF fault THEN srcs
    ELSE {IF s.id = p.source_id
          THEN [s EXCEPT !.channel_count = p.channel_count,
                         !.program_count = p.program_count + p.skipped_programs]
          ELSE s : s \in srcs}
UpdateSourceStatistics(srcs, p, fault) ==
    IF fault THEN srcs
    ELSE {IF s.id = p.source_id
          THEN [s EXCEPT !.channel_count = p.channel_count,
                         !.program_count = p.program_count]
          ELSE s : s \in srcs}

(***************************************************************************)
(* The environment: source urls and the files they serve                   *)
(***************************************************************************)
UrlA == <<"http:", "", "a", "guide.xml">>
UrlB == <<"http:", "", "b", "guide.xml">>

C1 == <<"c", "1">>
C2 == <<"c", "2">>
C3 == <<"c", "3">>

Child(name, text) == [name |-> name, attrs |-> <<>>, text |-> text]

Channel(attrs, children) == [name |-> "channel", attrs |-> attrs, children |-> children]

Programme(attrs, children) ==
    [name |-> "programme", attrs |-> attrs, children |-> children]

Ch1  == Channel([id |-> C1], <<Child("display-name", <<"N">>)>>)
Ch2  == Channel([id |-> C2], <<Child("display-name", <<" ", "M">>)>>)
Ch3  == Channel([id |-> C3], <<Child("display-name", <<"O">>)>>)
ChNoId == Channel(<<>>, <<Child("display-name", <<"N">>)>>)

\* Two more declarations of channel c1, each with an icon element whose text
\* the handler takes.
IconA == <<"@", "s", "r", "c", "A">>
IconB == <<"@", "s", "r", "c", "B">>
Ch1A == Channel([id |-> C1], <<Child("display-name", <<"Q">>), Child("icon", IconA)>>)
Ch1B == Channel([id |-> C1], <<Child("display-name", <<"R">>), Child("icon", IconB)>>)

P1a == Programme([channel |-> C1, start |-> <<"1">>, stop |-> <<"2">>],
                 <<Child("title", <<"T">>)>>)
\* The channel, start and stop of P1a, with other texts.
P1aX == Programme([channel |-> C1, start |-> <<"1">>, stop |-> <<"2">>],
                 <<Child("title", <<"X">>), Child("desc", <<"D", " ">>)>>)
P1b == Programme([channel |-> C1, start |-> <<"2">>, stop |-> <<"3">>],
                 <<Child("title", <<"U", " ">>)>>)
P2  == Programme([channel |-> C2, start |-> <<"1">>, stop |-> <<"2">>],
                 <<Child("title", <<"V">>)>>)
P3  == Programme([channel |-> C3, start |-> <<"1">>, stop |-> <<"2">>],
                 <<Child("title", <<"W">>)>>)
P1NoTitle == Programme([channel |-> C1, start |-> <<"3">>, stop |-> <<"4">>],
                 <<Child("desc", <<"D">>)>>)
P1Blank == Programme([channel |-> C1, start |-> <<"3">>, stop |-> <<"4">>],
                 <<Child("title", <<" ", "\n">>)>>)
PNoChannel == Programme([start |-> <<"1">>, stop |-> <<"2">>],
                 <<Child("title", <<"T">>)>>)

\* Longest file of the enumerated files, and the numbers of process_source calls.
MaxElems == 3
ParseCalls == 1
StoreCalls == 3

\* How many failures (download, stream, store) the environment causes at most.
ParseFaults == 3
StoreFaults == 1

\* The length of the list of sources of one run of the loop, and its failures.
RunSources == 2
RunFaults == 2

ParseElements == {Ch1, Ch2, ChNoId, P1a, P1b, P2, P3, P1NoTitle, P1Blank, PNoChannel}

FeedsUpTo(elems, n) == UNION {[1..k -> elems] : k \in 0..n}

\* Channels c1, c2; two programmes on c1, one on c2, one on the undeclared c3.
ExampleFeed == <<Ch1, Ch2, P1a, P1b, P2, P3>>

\* Three channels, written in two batches, and a batch of programmes on the
\* first and the last of them.
TwoBatchFeed == <<Ch1, Ch2, Ch3, P3, P1a>>

\* Files that declare channel c1 twice: in one batch, and in two batches.
DuplicateFeeds ==
    {<<Ch1A, Ch1>>, <<Ch1, Ch1A>>, <<Ch1A, Ch1B>>,
     <<Ch1A, Ch2, Ch1>>, <<Ch1, Ch2, Ch1A>>, <<Ch1A, Ch2, Ch1B>>}

\* Channel ids and a start string that contain the character the key is joined
\* with: c, 1_1, 2 and c_1, 1, 2.
CC  == <<"c">>
CC1 == <<"c", "_", "1">>
ChC  == Channel([id |-> CC], <<Child("display-name", <<"N">>)>>)
ChC1 == Channel([id |-> CC1], <<Child("display-name", <<"M">>)>>)
PCa == Programme([channel |-> CC, start |-> <<"1", "_", "1">>, stop |-> <<"2">>],
                 <<Child("title", <<"T">>)>>)
PCb == Programme([channel |-> CC1, start |-> <<"1">>, stop |-> <<"2">>],
                 <<Child("title", <<"U">>)>>)
\* The channel and start of P1a, another stop.
P1c == Programme([channel |-> C1, start |-> <<"1">>, stop |-> <<"3">>],
                 <<Child("title", <<"Y">>)>>)
KeyFeeds == {<<ChC, ChC1, PCa, PCb>>, <<Ch1, P1a, P1c>>}

\* A channel with id="" and a programme with channel="".
ChEmptyId == Channel([id |-> <<>>], <<Child("display-name", <<"N">>)>>)
PEmptyChannel == Programme([channel |-> <<>>, start |-> <<"1">>, stop |-> <<"2">>],
                           <<Child("title", <<"T">>)>>)
IdlessFeeds == {<<ChEmptyId, Ch1, PEmptyChannel, P1a>>, <<ChEmptyId, PEmptyChannel>>}

\* Channels whose icon element is XMLTV's <icon src="u"/>, and whose first icon
\* element has a text without "@src" and the second one with it.
IconSrc == [name |-> "icon", attrs |-> [src |-> <<"u">>], text |-> <<>>]
ChIconSrc == Channel([id |-> C1], <<Child("display-name", <<"N">>), IconSrc>>)
ChTwoIcons == Channel([id |-> C1], <<Child("icon", <<"u">>), Child("icon", IconB)>>)
IconFeeds == {<<ChIconSrc, P1a>>, <<ChTwoIcons>>}

Catalog(files) ==
    IF files = "parse"
    THEN FeedsUpTo(ParseElements, MaxElems) \cup {ExampleFeed, TwoBatchFeed}
         \cup DuplicateFeeds \cup KeyFeeds \cup IdlessFeeds \cup IconFeeds
    ELSE IF files = "run"
    THEN {<<Ch1, P1a>>, <<Ch2, P2, P1a>>, <<Ch1, P1a, P1aX>>, <<Ch1, P1aX, P1b, P1a>>}
    ELSE {<<Ch1, P1a>>, <<Ch1, P1b>>, <<Ch2, P2, P1a>>}

(***************************************************************************)
(* History                                                                 *)
(***************************************************************************)
NewRun(source_id) ==
    [src |-> source_id, channel_ids |-> {}, first |-> "-", consumed |-> FALSE,
     flushed |-> FALSE, second |-> "-", faults |-> FALSE, stats |-> FALSE,
     lost |-> 0]

CleanRun(r) == r.first = "ok" /\ r.second = "ok" /\ ~r.faults

Snapshot(r, f, chs, progs) ==
    [src |-> r.src, feed |-> f, clean |-> CleanRun(r),
     channels |-> {ChannelCols(c) : c \in chs},
     programs |-> {ProgramCols(q) : q \in progs}]

Push(d, snap) == IF Len(d) < 2 THEN Append(d, snap) ELSE <<d[2], snap>>

Run == Len(runs)

(***************************************************************************)
(* The loop of main and run_parser:                                        *)
(*     for idx, source in enumerate(sources):                              *)
(*         if process_source(source, ...): success_count += 1              *)
(***************************************************************************)
NoDriver == [sources |-> <<>>, idx |-> 1, success_count |-> 0, interrupted |-> FALSE]

NewDriver(list) == [NoDriver EXCEPT !.sources = list]

\* The loop has a source left to process.
Looping == driver.idx <= Len(driver.sources)

\* KeyboardInterrupt has reached the loop: the except branch has run and the
\* loop is left.
Interrupted(d) == [d EXCEPT !.idx = Len(d.sources) + 1, !.interrupted = TRUE]

\* process_source has returned res to the loop.
ReturnedLeavesOnFailure(d, res) ==
    IF res = "True"
    THEN [d EXCEPT !.idx = @ + 1, !.success_count = @ + 1]
    ELSE [d EXCEPT !.idx = Len(d.sources) + 1]
Returned(d, res) ==
    [d EXCEPT !.idx = @ + 1,
              !.success_count = IF res = "True" THEN @ + 1 ELSE @]

(***************************************************************************)
(* Init                                                                    *)
(***************************************************************************)
InitStore ==
    /\ sources = {} /\ channels = {} /\ programs = {}
    /\ pc = "idle" /\ source_url = <<>> /\ feed = <<>> /\ pos = 1
    /\ parser = <<>> /\ chandler = <<>> /\ phandler = <<>>
    /\ result = "-" /\ runs = <<>> /\ done = <<>> /\ faults = 0
    /\ driver = NoDriver

\* One call of process_source on any of the enumerated files.
Init ==
    /\ InitStore
    /\ env = [urls |-> {UrlA}, files |-> "parse", calls |-> ParseCalls,
              faults |-> ParseFaults, lists |-> {<<UrlA>>}]

\* Several calls over two sources and a few files.
InitMany ==
    /\ InitStore
    /\ env = [urls |-> {UrlA, UrlB}, files |-> "store", calls |-> StoreCalls,
              faults |-> StoreFaults, lists |-> {<<UrlA>>, <<UrlB>>}]

\* One run of the loop over a list of RunSources sources.
InitRun ==
    /\ InitStore
    /\ env = [urls |-> {UrlA, UrlB}, files |-> "run", calls |-> RunSources,
              faults |-> RunFaults, lists |-> [1..RunSources -> {UrlA, UrlB}]]

(***************************************************************************)
(* main in command-line mode, run_parser                                   *)
(***************************************************************************)
\* The database is opened, success_count = 0, and the loop is entered.
RunParser(list) ==
    /\ pc = "idle" /\ ~Looping
    /\ Run + Len(list) <= env.calls
    /\ driver' = NewDriver(list)
    /\ UNCHANGED <<sources, channels, programs, pc, source_url, feed, pos, parser,
                   chandler, phandler, result, runs, done, faults, env>>

(***************************************************************************)
(* process_source                                                          *)
(***************************************************************************)
\* process_source up to the commit that follows DELETE FROM sources.
Wipe(url) ==
    /\ pc = "idle"
    /\ Looping /\ url = driver.sources[driver.idx]
    /\ LET d == DeleteSourceRows(sources, channels, programs, SourceId(url))
       IN  /\ sources' = d.sources
           /\ channels' = d.channels
           /\ programs' = d.programs
    /\ source_url' = url
    /\ pc' = "acquire"
    /\ result' = "-"
    /\ runs' = Append(runs, NewRun(SourceId(url)))
    /\ UNCHANGED <<feed, pos, parser, chandler, phandler, done, faults, env, driver>>

\* download_file returns None: process_source returns False.
AcquireFail ==
    /\ pc = "acquire"
    /\ StartsWithHttp(source_url)
    /\ faults < env.faults
    /\ faults' = faults + 1
    /\ runs' = [runs EXCEPT ![Run].faults = TRUE]
    /\ pc' = "idle"
    /\ result' = "False"
    /\ done' = Push(done, Snapshot(runs'[Run], <<>>, channels, programs))
    /\ driver' = Returned(driver, result')
    /\ UNCHANGED <<sources, channels, programs, source_url, feed, pos, parser,
                   chandler, phandler, env>>

\* The file is there: INSERT INTO sources, commit, the parser and the first
\* pass's handler are made.
AcquireOk(f) ==
    /\ pc = "acquire"
    /\ sources' = sources \cup
          {[id |-> SourceId(source_url), name |-> SourceName(source_url),
            url |-> source_url, channel_count |-> 0, program_count |-> 0]}
    /\ feed' = f
    /\ pos' = 1
    /\ parser' = NewParser(SourceId(source_url))
    /\ chandler' = NewChannelHandler(SourceId(source_url))
    /\ phandler' = <<>>
    /\ pc' = "first"
    /\ UNCHANGED <<channels, programs, source_url, result, runs, done, faults, env, driver>>

(***************************************************************************)
(* _first_pass                                                             *)
(***************************************************************************)
\* Whether the running pass has delivered every event of the file.
AtEndOfStream == pos = Len(Events(feed)) + 1

NoteFault(fault) == [runs EXCEPT ![Run].faults = @ \/ fault]

\* The outcomes of a write to the store that the environment can still choose.
Faulty == IF faults < env.faults THEN BOOLEAN ELSE {FALSE}

Count(fault) == IF fault THEN 1 ELSE 0

\* History: one more batch of the call whose write has failed.
LostBatch(rs, fault) == [rs EXCEPT ![Run].lost = @ + Count(fault)]

FirstPassStartElement ==
    /\ pc = "first" /\ ~AtEndOfStream
    /\ LET ev == Events(feed)[pos]
       IN  /\ ev.type = "start"
           /\ chandler' = ChannelStartElement(chandler, ev.name, ev.attrs)
    /\ pos' = pos + 1
    /\ UNCHANGED <<sources, channels, programs, pc, source_url, feed, parser,
                   phandler, result, runs, done, faults, env, driver>>

FirstPassCharacters ==
    /\ pc = "first" /\ ~AtEndOfStream
    /\ LET ev == Events(feed)[pos]
       IN  /\ ev.type = "chars"
           /\ chandler' = ChannelCharacters(chandler, ev.content)
    /\ pos' = pos + 1
    /\ UNCHANGED <<sources, channels, programs, pc, source_url, feed, parser,
                   phandler, result, runs, done, faults, env, driver>>

\* endElement, with the write of the batch when the batch is full.
FirstPassEndElement(fault) ==
    /\ pc = "first" /\ ~AtEndOfStream
    /\ LET ev == Events(feed)[pos]
           h1 == ChannelEndElement(chandler, ev.name)
           full == ChannelBatchFull(chandler, h1)
       IN  /\ ev.type = "end"
           /\ fault => full
           /\ channels' = IF full
                          THEN ProcessChannelBatch(channels, sources, h1.channel_batch,
                                                   Run, fault)
                          ELSE channels
           /\ chandler' = IF full THEN [h1 EXCEPT !.channel_batch = <<>>] ELSE h1
    /\ pos' = pos + 1
    /\ runs' = LostBatch(NoteFault(fault), fault)
    /\ faults' = faults + Count(fault)
    /\ UNCHANGED <<sources, programs, pc, source_url, feed, parser, phandler,
                   result, done, env, driver>>

\* endDocument, the lines of _first_pass that follow parser.parse, and the
\* making of the second pass's handler in _second_pass.  The first pass's
\* handler is a local of _first_pass and is gone when it returns.
FirstPassEndDocument(fault) ==
    /\ pc = "first" /\ AtEndOfStream
    /\ fault => chandler.channel_batch # <<>>
    /\ channels' = ProcessChannelBatch(channels, sources, chandler.channel_batch,
                                       Run, fault)
    /\ chandler' = <<>>
    /\ parser' = [parser EXCEPT !.channel_count = chandler.channel_count,
                                !.channel_ids = chandler.channel_ids]
    /\ phandler' = NewProgramHandler(parser.source_id, chandler.channel_ids)
    /\ pc' = "second"
    /\ pos' = 1
    /\ runs' = [LostBatch(NoteFault(fault), fault) EXCEPT
                    ![Run].first = "ok",
                    ![Run].consumed = (pos = Len(Events(feed)) + 1),
                    ![Run].flushed = TRUE,
                    ![Run].channel_ids = chandler.channel_ids]
    /\ faults' = faults + Count(fault)
    /\ UNCHANGED <<sources, programs, source_url, feed, result, done, env, driver>>

\* parser.parse raises (malformed document, read error): _first_pass logs it and
\* returns False, and parse goes on to _second_pass.
FirstPassError ==
    /\ pc = "first"
    /\ faults < env.faults
    /\ faults' = faults + 1
    /\ phandler' = NewProgramHandler(parser.source_id, parser.channel_ids)
    /\ pc' = "second"
    /\ pos' = 1
    /\ chandler' = <<>>
    /\ runs' = [runs EXCEPT ![Run].first = "error",
                            ![Run].faults = TRUE,
                            ![Run].consumed = (pos = Len(Events(feed)) + 1),
                            ![Run].flushed = (chandler.channel_batch = <<>>)]
    /\ UNCHANGED <<sources, channels, programs, source_url, feed, parser,
                   result, done, env, driver>>

\* Whether the next step of the first pass calls _process_channel_batch.
ChannelWriteDue ==
    IF AtEndOfStream THEN chandler.channel_batch # <<>>
    ELSE LET ev == Events(feed)[pos]
         IN  /\ ev.type = "end"
             /\ ChannelBatchFull(chandler, ChannelEndElement(chandler, ev.name))

\* A statement of _process_channel_batch raises an error on which SQLite has
\* itself rolled the transaction back (database or disk is full, I/O error):
\* the ROLLBACK of the except branch raises "no transaction is active", the
\* exception leaves the handler and parser.parse, and _first_pass returns False.
FirstPassBatchError ==
    /\ pc = "first" /\ ChannelWriteDue
    /\ faults < env.faults
    /\ faults' = faults + 1
    /\ phandler' = NewProgramHandler(parser.source_id, parser.channel_ids)
    /\ pc' = "second"
    /\ pos' = 1
    /\ chandler' = <<>>
    /\ runs' = [LostBatch(runs, TRUE) EXCEPT
                    ![Run].first = "store",
                    ![Run].faults = TRUE,
                    ![Run].consumed = (pos = Len(Events(feed)) + 1),
                    ![Run].flushed = FALSE]
    /\ UNCHANGED <<sources, channels, programs, source_url, feed, parser,
                   result, done, env, driver>>

(***************************************************************************)
(* _second_pass and the end of parse                                       *)
(***************************************************************************)
SecondPassStartElement ==
    /\ pc = "second" /\ ~AtEndOfStream
    /\ LET ev == Events(feed)[pos]
       IN  /\ ev.type = "start"
           /\ phandler' = ProgramStartElement(phandler, ev.name, ev.attrs)
    /\ pos' = pos + 1
    /\ UNCHANGED <<sources, channels, programs, pc, source_url, feed, parser,
                   chandler, result, runs, done, faults, env, driver>>

SecondPassCharacters ==
    /\ pc = "second" /\ ~AtEndOfStream
    /\ LET ev == Events(feed)[pos]
       IN  /\ ev.type = "chars"
           /\ phandler' = ProgramCharacters(phandler, ev.content)
    /\ pos' = pos + 1
    /\ UNCHANGED <<sources, channels, programs, pc, source_url, feed, parser,
                   chandler, result, runs, done, faults, env, driver>>

\* endElement, with the write of the batch when the batch is full.
SecondPassEndElement(fault) ==
    /\ pc = "second" /\ ~AtEndOfStream
    /\ LET ev == Events(feed)[pos]
           h1 == ProgramEndElement(phandler, ev.name)
           full == ProgramBatchFull(phandler, h1)
       IN  /\ ev.type = "end"
           /\ fault => full
           /\ programs' = IF full
                          THEN ProcessProgramBatch(programs, channels, h1.program_batch,
                                                   Run, fault)
                          ELSE programs
           /\ phandler' = IF full THEN [h1 EXCEPT !.program_batch = <<>>] ELSE h1
    /\ pos' = pos + 1
    /\ runs' = LostBatch(NoteFault(fault), fault)
    /\ faults' = faults + Count(fault)
    /\ UNCHANGED <<sources, channels, pc, source_url, feed, parser, chandler,
                   result, done, env, driver>>

\* endDocument, the lines of _second_pass that follow parser.parse, and the rest
\* of parse: the source's statistics are written and parse returns True.
SecondPassEndDocument(fault, ufault) ==
    /\ pc = "second" /\ AtEndOfStream
    /\ faults + Count(fault) + Count(ufault) <= env.faults
    /\ faults' = faults + Count(fault) + Count(ufault)
    /\ fault => phandler.program_batch # <<>>
    /\ LET progs == ProcessProgramBatch(programs, channels, phandler.program_batch,
                                        Run, fault)
           p == [parser EXCEPT !.program_count = phandler.program_count,
                               !.skipped_programs = phandler.skipped_programs]
           rs == [LostBatch(NoteFault(fault \/ ufault), fault) EXCEPT
                                                     ![Run].second = "ok",
                                                     ![Run].stats = ~ufault]
       IN  /\ programs' = progs
           /\ parser' = p
           /\ sources' = UpdateSourceStatistics(sources, p, ufault)
           /\ runs' = rs
           /\ done' = Push(done, Snapshot(rs[Run], feed, channels, progs))
    /\ phandler' = <<>>
    /\ pos' = 1
    /\ pc' = "idle"
    /\ result' = "True"
    /\ driver' = Returned(driver, result')
    /\ UNCHANGED <<channels, source_url, feed, chandler, env>>

\* parser.parse raises in the second pass: _second_pass logs it and returns
\* False, and parse goes on: the statistics are written and parse returns True.
SecondPassError(ufault) ==
    /\ pc = "second"
    /\ faults + 1 + Count(ufault) <= env.faults
    /\ faults' = faults + 1 + Count(ufault)
    /\ LET rs == [runs EXCEPT ![Run].second = "error", ![Run].faults = TRUE,
                               ![Run].stats = ~ufault]
       IN  /\ runs' = rs
           /\ done' = Push(done, Snapshot(rs[Run], feed, channels, programs))
    /\ sources' = UpdateSourceStatistics(sources, parser, ufault)
    /\ phandler' = <<>>
    /\ pos' = 1
    /\ pc' = "idle"
    /\ result' = "True"
    /\ driver' = Returned(driver, result')
    /\ UNCHANGED <<channels, programs, source_url, feed, parser, chandler, env>>

\* Whether the next step of the second pass calls _process_program_batch.
ProgramWriteDue ==
    IF AtEndOfStream THEN phandler.program_batch # <<>>
    ELSE LET ev == Events(feed)[pos]
         IN  /\ ev.type = "end"
             /\ ProgramBatchFull(phandler, ProgramEndElement(phandler, ev.name))

\* As FirstPassBatchError, in _process_program_batch: _second_pass returns
\* False and parse goes on to the statistics.
SecondPassBatchError(ufault) ==
    /\ pc = "second" /\ ProgramWriteDue
    /\ faults + 1 + Count(ufault) <= env.faults
    /\ faults' = faults + 1 + Count(ufault)
    /\ LET rs == [LostBatch(runs, TRUE) EXCEPT
                     ![Run].second = "store", ![Run].faults = TRUE,
                     ![Run].stats = ~ufault]
       IN  /\ runs' = rs
           /\ done' = Push(done, Snapshot(rs[Run], feed, channels, programs))
    /\ sources' = UpdateSourceStatistics(sources, parser, ufault)
    /\ phandler' = <<>>
    /\ pos' = 1
    /\ pc' = "idle"
    /\ result' = "True"
    /\ driver' = Returned(driver, result')
    /\ UNCHANGED <<channels, programs, source_url, feed, parser, chandler, env>>

(***************************************************************************)
(* KeyboardInterrupt.  No handler of the passes catches it (they catch     *)
(* Exception): it leaves parse, parse_epg_file and process_source and      *)
(* reaches the loop's except branch, which calls db_connection.commit()    *)
(* and so commits the transaction that is open at that moment, if any.     *)
(***************************************************************************)
\* What every interrupt of a call leaves behind.
Unwind(pass) ==
    /\ faults < env.faults
    /\ faults' = faults + 1
    /\ runs' = [runs EXCEPT ![Run][pass] = "interrupted", ![Run].faults = TRUE]
    /\ driver' = Interrupted(driver)
    /\ chandler' = <<>> /\ phandler' = <<>>
    /\ pos' = 1
    /\ pc' = "idle"
    /\ result' = "-"
    /\ done' = <<>>
    /\ UNCHANGED <<sources, source_url, feed, parser, env>>

\* The interrupt arrives while no transaction is open.
Interrupt ==
    /\ pc \in {"first", "second"}
    /\ Unwind(pc)
    /\ UNCHANGED <<channels, programs>>

\* The interrupt arrives in _process_channel_batch after BEGIN TRANSACTION,
\* when k records of the batch have been written.
InterruptInChannelBatch(k) ==
    /\ pc = "first" /\ ChannelWriteDue
    /\ LET batch == IF AtEndOfStream THEN chandler.channel_batch
                    ELSE ChannelEndElement(chandler, Events(feed)[pos].name).channel_batch
           w == WriteChannels(channels, sources, SubSeq(batch, 1, k), Run)
       IN  /\ k <= Len(batch)
           /\ w.ok
           /\ channels' = w.channels
    /\ Unwind("first")
    /\ UNCHANGED programs

\* The same in _process_program_batch.
InterruptInProgramBatch(k) ==
    /\ pc = "second" /\ ProgramWriteDue
    /\ LET batch == IF AtEndOfStream THEN phandler.program_batch
                    ELSE ProgramEndElement(phandler, Events(feed)[pos].name).program_batch
       IN  /\ k <= Len(batch)
           /\ programs' = WritePrograms(programs, channels, SubSeq(batch, 1, k), Run)
    /\ Unwind("second")
    /\ UNCHANGED channels

(***************************************************************************)
(* delete_source (the menu's entry 6, answered with a source and "y")      *)
(***************************************************************************)
DeleteSource(source_id) ==
    /\ pc = "idle" /\ ~Looping
    /\ source_id \in Ids(sources)
    /\ LET d == DeleteSourceRows(sources, channels, programs, source_id)
       IN  /\ sources' = d.sources
           /\ channels' = d.channels
           /\ programs' = d.programs
    /\ done' = <<>>
    /\ UNCHANGED <<pc, source_url, feed, pos, parser, chandler, phandler, result,
                   runs, faults, env, driver>>

Next ==
    \/ \E list \in env.lists : RunParser(list)
    \/ \E url \in env.urls : Wipe(url)
    \/ AcquireFail
    \/ \E f \in Catalog(env.files) : AcquireOk(f)
    \/ FirstPassStartElement
    \/ FirstPassCharacters
    \/ \E fault \in Faulty : FirstPassEndElement(fault)
    \/ \E fault \in Faulty : FirstPassEndDocument(fault)
    \/ FirstPassError
    \/ FirstPassBatchError
    \/ SecondPassStartElement
    \/ SecondPassCharacters
    \/ \E fault \in Faulty : SecondPassEndElement(fault)
    \/ \E fault, ufault \in Faulty : SecondPassEndDocument(fault, ufault)
    \/ \E ufault \in Faulty : SecondPassError(ufault)
    \/ \E ufault \in Faulty : SecondPassBatchError(ufault)
    \/ Interrupt
    \/ \E k \in 0..batch_size : InterruptInChannelBatch(k)
    \/ \E k \in 0..batch_size : InterruptInProgramBatch(k)
    \/ \E source_id \in Ids(sources) : DeleteSource(source_id)

Spec == Init /\ [][Next]_vars

SpecMany == InitMany /\ [][Next]_vars

\* A step of the call of process_source that is running, or the loop's next
\* call: the program is sequential and does not stop between two of them.
CallStep ==
    \/ \E url \in env.urls : Wipe(url)
    \/ AcquireFail
    \/ \E f \in Catalog(env.files) : AcquireOk(f)
    \/ FirstPassStartElement
    \/ FirstPassCharacters
    \/ \E fault \in Faulty : FirstPassEndElement(fault)
    \/ \E fault \in Faulty : FirstPassEndDocument(fault)
    \/ FirstPassError
    \/ FirstPassBatchError
    \/ SecondPassStartElement
    \/ SecondPassCharacters
    \/ \E fault \in Faulty : SecondPassEndElement(fault)
    \/ \E fault, ufault \in Faulty : SecondPassEndDocument(fault, ufault)
    \/ \E ufault \in Faulty : SecondPassError(ufault)
    \/ \E ufault \in Faulty : SecondPassBatchError(ufault)

SpecRun == InitRun /\ [][Next]_vars /\ WF_vars(CallStep)

(***************************************************************************)
(* What a file holds, read off its elements without the handlers           *)
(***************************************************************************)
IsChannel(e) == e.name = "channel"
IsProgramme(e) == e.name = "programme"

ChannelsOf(f) == SelectSeq(f, IsChannel)
ProgrammesOf(f) == SelectSeq(f, IsProgramme)

Range(q) == {q[i] : i \in 1..Len(q)}

\* The non-empty ids the channel elements of the file declare.
DeclaredIds(f) == {Get(e.attrs, "id", <<>>) : e \in Range(ChannelsOf(f))} \ {<<>>}

ChannelRef(e) == Get(e.attrs, "channel", <<>>)

Blank(t) == \A i \in 1..Len(t) : t[i] \in {" ", "\n", "\t"}

\* The text of the last child called name, or absent.
LastText(e, name, absent) ==
    LET at == {i \in 1..Len(e.children) : e.children[i].name = name}
    IN  IF at = {} THEN absent
        ELSE e.children[CHOOSE i \in at : \A j \in at : j <= i].text

\* The programme has no title, or an empty or whitespace-only one.
Untitled(e) == Blank(LastText(e, "title", <<>>))

\* A handler call of the second pass, and the event it is called with.
SecondPassCall == pc = "second" /\ pc' = "second" /\ pos' = pos + 1
Event == Events(feed)[pos]
Element == feed[Event.el]

\* The last call of process_source parsed its file to the end in both passes.
ParsedToEnd ==
    pc = "idle" /\ Run >= 1 /\ runs[Run].first = "ok" /\ runs[Run].second = "ok"

(***************************************************************************)
(* C1: every program row's channel_id is in the channel-id set that the    *)
(* channel pass of the process_source call that wrote the row built: the   *)
(* program pass writes no row for a channel id outside that call's set.    *)
(***************************************************************************)
C1_RowsWithinRunChannelIds ==
    \A p \in programs : p.channel_id \in runs[p.run].channel_ids

\* A second call wrote program rows while channel rows of the first call's
\* other source are in the store.
C1_Witness ==
    /\ \E p \in programs : p.run = 2
    /\ \E c \in channels : c.run = 1 /\ c.source_id # runs[2].src

(***************************************************************************)
(* C2: in the program pass a programme element whose channel attribute is  *)
(* not in the channel-id set raises skipped_programs by exactly 1 (at its  *)
(* open, and at no other of its events) and changes neither the batch, the *)
(* program count nor the program table; a programme element whose channel  *)
(* is in the set never changes skipped_programs.                           *)
(***************************************************************************)
C2_SkippedCountsUnknownChannels ==
    [][(SecondPassCall /\ IsProgramme(Element)) =>
         IF ChannelRef(Element) \notin phandler.channel_ids
         THEN /\ phandler'.skipped_programs = phandler.skipped_programs
                    + (IF Event.type = "start" /\ Event.name = "programme" THEN 1 ELSE 0)
              /\ phandler'.program_batch = phandler.program_batch
              /\ phandler'.program_count = phandler.program_count
              /\ programs' = programs
         ELSE phandler'.skipped_programs = phandler.skipped_programs]_vars

\* The program pass has skipped one programme and accepted another.
C2_Witness ==
    /\ pc = "second"
    /\ phandler.skipped_programs >= 1
    /\ phandler.program_count >= 1

(***************************************************************************)
(* C3: the close of a programme element that references a channel of the   *)
(* channel-id set and has no title, or an empty or whitespace-only one,    *)
(* adds nothing to the batch, writes no row, and leaves program_count and  *)
(* skipped_programs as they were.                                          *)
(***************************************************************************)
C3_UntitledDroppedUncounted ==
    [][(/\ SecondPassCall
        /\ Event.type = "end" /\ Event.name = "programme"
        /\ ChannelRef(Element) \in phandler.channel_ids
        /\ Untitled(Element)) =>
         /\ phandler'.program_batch = phandler.program_batch
         /\ phandler'.program_count = phandler.program_count
         /\ phandler'.skipped_programs = phandler.skipped_programs
         /\ programs' = programs]_vars

\* The program pass has just closed a programme on a known channel whose title
\* is whitespace only.
C3_Witness ==
    /\ pc = "second" /\ pos > 1
    /\ LET ev == Events(feed)[pos - 1]
       IN  /\ ev.type = "end" /\ ev.name = "programme"
           /\ ChannelRef(feed[ev.el]) \in phandler.channel_ids
           /\ LastText(feed[ev.el], "title", <<>>) # <<>>
           /\ Untitled(feed[ev.el])

(***************************************************************************)
(* C4, as claimed: for a file with C channel elements of pairwise distinct *)
(* non-empty ids and P programme elements that all reference one of those  *)
(* ids, a parse that reads the file to its end in both passes ends with    *)
(* channel_count = C, program_count = P and skipped_programs = 0.          *)
(***************************************************************************)
DistinctChannelIds(f) ==
    LET cs == ChannelsOf(f)
    IN  \A i \in 1..Len(cs) :
            /\ Get(cs[i].attrs, "id", <<>>) # <<>>
            /\ \A j \in 1..Len(cs) :
                   i # j => Get(cs[i].attrs, "id", <<>>) # Get(cs[j].attrs, "id", <<>>)

AllReferenceDeclared(f) ==
    \A e \in Range(ProgrammesOf(f)) : ChannelRef(e) \in DeclaredIds(f)

AllTitled(f) == \A e \in Range(ProgrammesOf(f)) : ~Untitled(e)

CountsAre(c, p, k) ==
    /\ parser.channel_count = c
    /\ parser.program_count = p
    /\ parser.skipped_programs = k

C4_AsClaimed ==
    (ParsedToEnd /\ DistinctChannelIds(feed) /\ AllReferenceDeclared(feed)) =>
        CountsAre(Len(ChannelsOf(feed)), Len(ProgrammesOf(feed)), 0)

(***************************************************************************)
(* C4, amended: the same, for files whose programme elements each carry a  *)
(* title that is not empty or whitespace-only.                             *)
(***************************************************************************)
C4_CountsOfValidFeed ==
    (/\ ParsedToEnd
     /\ DistinctChannelIds(feed)
     /\ AllReferenceDeclared(feed)
     /\ AllTitled(feed)) =>
        CountsAre(Len(ChannelsOf(feed)), Len(ProgrammesOf(feed)), 0)

\* Such a file with a channel and two programmes has been parsed.
C4_Witness ==
    /\ ParsedToEnd
    /\ DistinctChannelIds(feed) /\ AllReferenceDeclared(feed) /\ AllTitled(feed)
    /\ Len(ChannelsOf(feed)) >= 1
    /\ Len(ProgrammesOf(feed)) >= 2

(***************************************************************************)
(* C5: when the program pass has reached the end of the stream, every      *)
(* programme element has been classified exactly once: program_count +     *)
(* skipped_programs + the number of programmes on a channel of the set     *)
(* that were dropped for lack of a title is the number of programme        *)
(* elements.  The file with channels c1, c2 and titled programmes on c1,   *)
(* c1, c2 and the undeclared c3, read to its end in both passes, gives     *)
(* channel_count 2, program_count 3, skipped_programs 1.                   *)
(***************************************************************************)
DroppedUntitled(f, ids) ==
    {i \in 1..Len(f) : IsProgramme(f[i]) /\ ChannelRef(f[i]) \in ids /\ Untitled(f[i])}

C5_EveryProgrammeClassifiedOnce ==
    (pc = "idle" /\ Run >= 1 /\ runs[Run].second = "ok") =>
        /\ parser.program_count + parser.skipped_programs
               + Cardinality(DroppedUntitled(feed, parser.channel_ids))
           = Len(ProgrammesOf(feed))
        /\ (feed = ExampleFeed /\ runs[Run].first = "ok") => CountsAre(2, 3, 1)

\* The example file has been parsed to its end.
C5_Witness == ParsedToEnd /\ feed = ExampleFeed

(***************************************************************************)
(* C6, as claimed: two calls of process_source in a row for the same       *)
(* source with the same file content, neither disturbed by a failure,      *)
(* leave the channel and program tables with the same rows after the       *)
(* second call as after the first.  (Stated for histories in which the     *)
(* environment has caused no failure at all.)                              *)
(***************************************************************************)
C6_ReprocessingIsIdempotent ==
    (/\ faults = 0
     /\ Len(done) = 2
     /\ done[1].src = done[2].src
     /\ done[1].feed = done[2].feed
     /\ done[1].clean /\ done[2].clean) =>
        /\ done[2].channels = done[1].channels
        /\ done[2].programs = done[1].programs

(***************************************************************************)
(* C7, as claimed: in any sequence of calls over any sources, once a call  *)
(* for a source has wiped the source, no channel row and no program row    *)
(* that an earlier call for the same source wrote is in the store.         *)
(* (Stated for histories in which the environment has caused no failure.)  *)
(***************************************************************************)
WrittenByEarlierRunOfSameSource(row) ==
    \E k \in (row.run + 1)..Run : runs[k].src = runs[row.run].src

C7_NoRowOfEarlierRunSurvives ==
    faults = 0 =>
    /\ \A c \in channels : ~WrittenByEarlierRunOfSameSource(c)
    /\ \A p \in programs : ~WrittenByEarlierRunOfSameSource(p)

(***************************************************************************)
(* C8: in every state every program row's channel_id names a channel row   *)
(* and every channel row's source_id names a source row; and a step that   *)
(* deletes a source row (the wipe of process_source, delete_source) leaves *)
(* no channel row of that source and no program row on such a channel.     *)
(***************************************************************************)
ReferencesResolve ==
    /\ \A p \in programs : p.channel_id \in Ids(channels)
    /\ \A c \in channels : c.source_id \in Ids(sources)

DeletionLeavesNoRows ==
    \A s \in Ids(sources) \ Ids(sources') :
        /\ \A c \in channels' : c.source_id # s
        /\ \A p \in programs' :
               p.channel_id \notin {c.id : c \in {x \in channels : x.source_id = s}}

C8_CascadeLeavesNoOrphans == []ReferencesResolve /\ [][DeletionLeavesNoRows]_vars

\* A source that had channel and program rows has been wiped by its second call
\* while the other source's rows are in the store.
C8_Witness ==
    /\ pc = "acquire" /\ Run = 3
    /\ runs[3].src = runs[1].src /\ runs[2].src # runs[1].src
    /\ CleanRun(runs[1]) /\ CleanRun(runs[2])
    /\ channels # {} /\ programs # {}

(***************************************************************************)
(* C9, as claimed: whenever the program pass is running, the channel pass  *)
(* of the same call has consumed the whole stream and has performed its    *)
(* final flush.                                                            *)
(***************************************************************************)
C9_ChannelPassCompleteBeforeProgramPass ==
    pc = "second" => (runs[Run].consumed /\ runs[Run].flushed)

(***************************************************************************)
(* C10, as claimed: the program pass decides admission against the         *)
(* complete set of the channel ids the file declares, wherever in the file *)
(* the declarations stand.                                                 *)
(***************************************************************************)
C10_AdmissionAgainstCompleteSet ==
    pc = "second" => phandler.channel_ids = DeclaredIds(feed)

(***************************************************************************)
(* C11, as claimed: when the stream of the channel pass or of the program  *)
(* pass fails, process_source (which returns what parse_epg_file and parse *)
(* return) gives a failing result and the loop over the sources does not   *)
(* add the source to success_count.                                        *)
(***************************************************************************)
StreamFailed(r) == r.first = "error" \/ r.second = "error"

C11_StreamFailureReported ==
    [][(pc # "idle" /\ pc' = "idle" /\ ~driver'.interrupted
        /\ StreamFailed(runs'[Len(runs')]))
       => (result' = "False" /\ driver'.success_count = driver.success_count)]_vars

(***************************************************************************)
(* C12, as claimed: once the channel pass of a call has failed, the        *)
(* program pass of that call is not run and the call does not write the    *)
(* counts of the source's row.                                             *)
(***************************************************************************)
C12_FailedChannelPassAbortsParse ==
    (Run >= 1 /\ runs[Run].first = "error") =>
        (pc # "second" /\ runs[Run].second = "-" /\ ~runs[Run].stats)

(***************************************************************************)
(* C13, as claimed: whenever the write of a batch fails, no row of either  *)
(* table changes, the handler's buffer is empty afterwards, and the pass   *)
(* goes on: it is not ended by the failure.                                *)
(***************************************************************************)
BatchWriteFails ==
    /\ Len(runs') = Len(runs) /\ Run >= 1
    /\ runs'[Run].lost > runs[Run].lost

PassGoesOn ==
    /\ runs'[Run].first # "store" /\ runs'[Run].second # "store"
    /\ (pc = "first" /\ pc' = "first") => chandler'.channel_batch = <<>>
    /\ (pc = "second" /\ pc' = "second") => phandler'.program_batch = <<>>

C13_FailedBatchRolledBackPassGoesOn ==
    [][BatchWriteFails =>
        (channels' = channels /\ programs' = programs /\ PassGoesOn)]_vars

(***************************************************************************)
(* C14: in every write of a program batch that reaches COMMIT, a record    *)
(* whose channel_id names no channel row (the one constraint of the        *)
(* programs table a record of the handler can violate) is passed over and  *)
(* leaves no row, every other record of the batch has its row in the table *)
(* afterwards, written by this call, and no row outside the batch changes. *)
(***************************************************************************)
\* The batch the next step of the second pass writes.
ProgramBatchDue ==
    IF AtEndOfStream THEN phandler.program_batch
    ELSE ProgramEndElement(phandler, Event.name).program_batch

ProgramBatchCommits ==
    /\ pc = "second" /\ ProgramWriteDue
    /\ Len(runs') = Len(runs)
    /\ runs'[Run].lost = runs[Run].lost
    /\ runs'[Run].second \in {"-", "ok"}

Rejected(p) == p.channel_id \notin Ids(channels)

\* The record's row as the store holds it, if no later record of the batch
\* has the same id.
WrittenAs(batch, i) ==
    \E row \in programs' :
        /\ row.id = batch[i].id /\ row.run = Run
        /\ (\A j \in (i + 1)..Len(batch) : batch[j].id # batch[i].id)
               => ProgramCols(row) = batch[i]

C14_RejectedRecordAloneSkipped ==
    [][ProgramBatchCommits =>
        LET batch == ProgramBatchDue
        IN  /\ \A i \in 1..Len(batch) :
                IF Rejected(batch[i])
                THEN \A row \in programs' : row.channel_id # batch[i].channel_id
                ELSE WrittenAs(batch, i)
            /\ \A row \in programs :
                (\A i \in 1..Len(batch) : batch[i].id # row.id) => row \in programs'
       ]_vars

\* A batch of two records has been committed: the first was rejected, the
\* second is in the table.
C14_Witness ==
    /\ pc = "idle" /\ Run >= 1 /\ feed = TwoBatchFeed
    /\ runs[Run].first = "ok" /\ runs[Run].second = "ok" /\ runs[Run].lost = 1
    /\ Ids(channels) = {C1, C2}
    /\ Ids(programs) = {ProgramId(C1, <<"1">>, <<"2">>)}
    /\ parser.program_count = 2

(***************************************************************************)
(* C15, as claimed: when an interrupt ends a call, the rows committed      *)
(* before stay, and the batch whose write was in progress is in the store  *)
(* with all of its records or with none of them.                           *)
(***************************************************************************)
InterruptStep == driver'.interrupted /\ ~driver.interrupted

ChannelBatchDue ==
    IF AtEndOfStream THEN chandler.channel_batch
    ELSE ChannelEndElement(chandler, Event.name).channel_batch

BatchWhole ==
    \/ channels' = channels /\ programs' = programs
    \/ /\ pc = "first" /\ ChannelWriteDue /\ programs' = programs
       /\ channels' = ProcessChannelBatch(channels, sources, ChannelBatchDue, Run, FALSE)
    \/ /\ pc = "second" /\ ProgramWriteDue /\ channels' = channels
       /\ programs' = ProcessProgramBatch(programs, channels, ProgramBatchDue, Run, FALSE)

C15_InterruptKeepsBatchesWhole == [][InterruptStep => BatchWhole]_vars

(***************************************************************************)
(* C16: in one run of the loop over a list of sources, calls are made one  *)
(* at a time and in list order, success_count never exceeds the number of  *)
(* sources, and a run that is entered and not interrupted comes to its end *)
(* with one call made for every source of the list, whichever of the calls *)
(* have failed (download, channel pass, program pass).                     *)
(***************************************************************************)
\* The calls made so far are for the first sources of the list, in order.
InListOrder ==
    /\ Run <= Len(driver.sources)
    /\ \A j \in 1..Run : runs[j].src = SourceId(driver.sources[j])
    /\ driver.success_count <= Len(driver.sources)
    /\ driver.success_count < driver.idx

\* A call begins only when no other call is running.
OneAtATime == Len(runs') > Len(runs) => (pc = "idle" /\ chandler = <<>> /\ phandler = <<>>)

RunOver == pc = "idle" /\ ~Looping /\ Run = Len(driver.sources)

C16_FailuresDoNotAbortTheRun ==
    /\ [](driver.sources # <<>> => InListOrder)
    /\ [][OneAtATime]_vars
    /\ (Looping ~> (driver.interrupted \/ RunOver))

\* The run is over: the first source's call failed, the second's did not.
C16_Witness ==
    /\ RunOver /\ ~driver.interrupted /\ Run = RunSources
    /\ runs[1].faults /\ CleanRun(runs[2])
    /\ driver.success_count = 1

(***************************************************************************)
(* C17, as claimed: throughout the program pass (the channels table does   *)
(* not change while it runs) the channel-id set the pass was given is the  *)
(* set of the ids of the channel rows of the call's source.                *)
(***************************************************************************)
StoredIdsOfSource == {c.id : c \in {r \in channels : r.source_id = parser.source_id}}

RECURSIVE ChannelHandlerAfter(_, _)
ChannelHandlerAfter(h, evs) ==
    IF evs = <<>> THEN h
    ELSE LET ev == Head(evs)
             h1 == IF ev.type = "start" THEN ChannelStartElement(h, ev.name, ev.attrs)
                   ELSE IF ev.type = "chars" THEN ChannelCharacters(h, ev.content)
                   ELSE ChannelEndElement(h, ev.name)
         IN  ChannelHandlerAfter(h1, Tail(evs))

\* The record the handler builds for one channel element.
CandidateOf(e) ==
    ChannelHandlerAfter(NewChannelHandler(parser.source_id),
                        ElementEvents(e, 1)).current_channel

\* The last channel element of the file that declares id.
LastDeclaration(f, id) ==
    LET at == {i \in 1..Len(f) : IsChannel(f[i]) /\ Get(f[i].attrs, "id", <<>>) = id}
    IN  f[CHOOSE i \in at : \A j \in at : j <= i]

CleanChannelPass == pc = "second" /\ runs[Run].first = "ok" /\ runs[Run].lost = 0

C18_LaterDeclarationWins ==
    CleanChannelPass =>
        \A id \in DeclaredIds(feed) :
            LET rows == {c \in channels : c.id = id}
                last == CandidateOf(LastDeclaration(feed, id))
            IN  /\ Cardinality(rows) = 1
                /\ \A c \in rows : /\ c.source_id = parser.source_id
                                   /\ c.name = last.name
                                   /\ c.icon = last.icon

\* Channel c1 declared with name Q and an icon in the first batch and with
\* name N and no icon in the second: the row has name N and no icon.
C18_Witness ==
    /\ CleanChannelPass /\ feed = <<Ch1A, Ch2, Ch1>>
    /\ \E c \in channels : c.id = C1 /\ c.name = <<"N">> /\ c.icon = None

(***************************************************************************)
(* C19, as claimed: for a channel id the file declares more than once, the *)
(* row's name is that of the last declaration and its icon is the first    *)
(* non-empty icon among the declarations, in file order.                   *)
(***************************************************************************)
DeclarationsOf(f, id) ==
    {i \in 1..Len(f) : IsChannel(f[i]) /\ Get(f[i].attrs, "id", <<>>) = id}

RepeatedIds(f) == {id \in DeclaredIds(f) : Cardinality(DeclarationsOf(f, id)) >= 2}

FirstIcon(f, id) ==
    LET with == {i \in DeclarationsOf(f, id) : Truthy(CandidateOf(f[i]).icon)}
    IN  IF with = {} THEN None
        ELSE CandidateOf(f[CHOOSE i \in with : \A j \in with : i <= j]).icon

C19_AsClaimed ==
    CleanChannelPass =>
        \A id \in RepeatedIds(feed) : \A c \in channels :
            c.id = id => /\ c.name = CandidateOf(LastDeclaration(feed, id)).name
                         /\ c.icon = FirstIcon(feed, id)

(***************************************************************************)
(* C19, amended: the icon of such a row is the icon of the last            *)
(* declaration, like its name: absent when the last declaration has no     *)
(* icon, whatever icon an earlier declaration had.                         *)
(***************************************************************************)
C19_IconOfLastDeclaration ==
    CleanChannelPass =>
        \A id \in RepeatedIds(feed) : \E c \in channels :
            /\ c.id = id
            /\ c.name = CandidateOf(LastDeclaration(feed, id)).name
            /\ c.icon = CandidateOf(LastDeclaration(feed, id)).icon
            /\ ~Truthy(CandidateOf(LastDeclaration(feed, id)).icon) => c.icon = None

\* The earlier block of c1 had an icon, the later block has none: the row has
\* the later block's name and no icon.
C19_Witness ==
    /\ CleanChannelPass /\ feed = <<Ch1A, Ch1>>
    /\ \E c \in channels : c.id = C1 /\ c.name = <<"N">> /\ c.icon = None

(***************************************************************************)
(* C20: a program row's id is ProgramId of its channel_id, start and stop; *)
(* no two rows have the same channel_id, start and stop; and after a call  *)
(* that parsed its file to the end without a failure, every programme the  *)
(* program pass accepted has one row, written by this call, whose title,   *)
(* description and category are those of the last accepted programme of    *)
(* the file with the same channel, start and stop -- also when an earlier  *)
(* call had stored a row for them.                                         *)
(***************************************************************************)
Triple(x) == <<x.channel_id, x.start, x.stop>>

TripleOf(e) ==
    <<ChannelRef(e), Get(e.attrs, "start", <<>>), Get(e.attrs, "stop", <<>>)>>

TextOrNone(e, name) ==
    LET t == LastText(e, name, None) IN IF t = None THEN None ELSE Strip(t)

\* The accepted programmes of the file: of a declared channel, and titled.
Accepted(f) ==
    {i \in 1..Len(f) :
        IsProgramme(f[i]) /\ ChannelRef(f[i]) \in DeclaredIds(f) /\ ~Untitled(f[i])}

LastAccepted(f, i) ==
    f[CHOOSE j \in Accepted(f) :
        /\ TripleOf(f[j]) = TripleOf(f[i])
        /\ \A k \in Accepted(f) : TripleOf(f[k]) = TripleOf(f[i]) => k <= j]

\* The last call has returned without a failure and nothing was deleted since.
CleanCall == pc = "idle" /\ Run >= 1 /\ Len(done) = Run /\ done[Run].clean

C20_OneRowPerChannelStartStop ==
    /\ \A p \in programs : p.id = ProgramId(p.channel_id, p.start, p.stop)
    /\ \A p, q \in programs : Triple(p) = Triple(q) => p = q
    /\ CleanCall =>
          \A i \in Accepted(feed) :
              \E p \in programs :
                  LET e == LastAccepted(feed, i)
                  IN  /\ Triple(p) = TripleOf(feed[i])
                      /\ p.run = Run
                      /\ p.title = Strip(LastText(e, "title", <<>>))
                      /\ p.description = TextOrNone(e, "desc")
                      /\ p.category = TextOrNone(e, "category")

\* The second call has parsed a file with two programmes of c1 from 1 to 2;
\* the first call had stored a row for c1 from 1 to 2 with another title.
C20_Witness ==
    /\ CleanCall /\ Run = 2 /\ feed = <<Ch1, P1a, P1aX>>
    /\ \E q \in done[1].programs : Triple(q) = TripleOf(P1a) /\ q.title = <<"T">>
    /\ \E p \in programs :
          Triple(p) = TripleOf(P1a) /\ p.title = <<"X">> /\ p.description = <<"D">>

(***************************************************************************)
(* C21: after a call that parsed its file to the end without a failure,    *)
(* any two accepted programmes of the file that differ in channel, start   *)
(* or stop have different keys and each has its own row.  As claimed it    *)
(* is stated for all strings; it holds when the channel ids and the start  *)
(* strings contain no "_".                                                 *)
(***************************************************************************)
KeyOf(e) == ProgramId(TripleOf(e)[1], TripleOf(e)[2], TripleOf(e)[3])

HasRow(e) == \E p \in programs : Triple(p) = TripleOf(e)

NoSeparator(s) == \A k \in 1..Len(s) : s[k] # "_"

Separable(e) == NoSeparator(TripleOf(e)[1]) /\ NoSeparator(TripleOf(e)[2])

ProcessingStep == pc # "idle" \/ pc' # "idle"

C22_OtherSourcesRowsUnchanged ==
    [][(ProcessingStep /\ faults' = 0) =>
          \A c \in channels :
              c.source_id # SourceId(source_url') =>
                  /\ c \in channels'
                  /\ \A p \in programs : p.channel_id = c.id => p \in programs']_vars

(***************************************************************************)
(* C23: while a pass runs its pending batch holds fewer than batch_size    *)
(* records; a step of a pass in which a batch write was due and after      *)
(* which the pass goes on leaves the batch empty, whether the write was    *)
(* committed or rolled back; and after a pass that reached end of stream   *)
(* and lost no batch, every record it accepted has been written: every id  *)
(* of the channel-id set has a channel row of this call, every accepted    *)
(* programme a program row of this call under its key.                     *)
(***************************************************************************)
RowsOfRun(rows) == {r \in rows : r.run = Run}

BatchBelowSize ==
    /\ pc = "first" => Len(chandler.channel_batch) < batch_size
    /\ pc = "second" => Len(phandler.program_batch) < batch_size

EmptyAfterFlush ==
    /\ (pc = "first" /\ pc' = "first" /\ ChannelWriteDue) =>
            chandler'.channel_batch = <<>>
    /\ (pc = "second" /\ pc' = "second" /\ ProgramWriteDue) =>
            phandler'.program_batch = <<>>

NothingLeftUnflushed ==
    /\ (pc = "second" /\ runs[Run].first = "ok" /\ runs[Run].lost = 0) =>
            runs[Run].channel_ids \subseteq Ids(RowsOfRun(channels))
    /\ (pc = "idle" /\ Run >= 1 /\ Len(done) = Run /\ runs[Run].first = "ok"
            /\ runs[Run].second = "ok" /\ runs[Run].lost = 0) =>
            \A i \in Accepted(feed) :
                \E p \in RowsOfRun(programs) : p.id = KeyOf(feed[i])

C23_BatchFlushedAtSizeAndAtEnd ==
    [][EmptyAfterFlush /\ BatchBelowSize' /\ NothingLeftUnflushed']_vars

\* Three channels have been written, two when the batch was full and one at
\* end of stream; the program pass has begun.
C23_Witness ==
    /\ pc = "second" /\ feed = TwoBatchFeed
    /\ runs[Run].first = "ok" /\ runs[Run].lost = 0
    /\ Ids(channels) = {C1, C2, C3}

(***************************************************************************)
(* C24: no event of a channel element whose id attribute is missing or     *)
(* empty changes the channel batch, channel_count, the channel-id set or   *)
(* the channel table; the empty string is never in the channel-id set of   *)
(* either pass; and a programme element whose channel attribute is missing *)
(* or empty adds one to skipped_programs at its open and changes neither   *)
(* the program batch, program_count nor the program table.                 *)
(***************************************************************************)
FirstPassCall == pc = "first" /\ pc' = "first" /\ pos' = pos + 1

Idless(e) == IsChannel(e) /\ ~Truthy(Get(e.attrs, "id", <<>>))

C24_IdlessChannelDiscarded ==
    [][/\ (FirstPassCall /\ Idless(Element)) =>
            /\ chandler'.channel_batch = chandler.channel_batch
            /\ chandler'.channel_count = chandler.channel_count
            /\ chandler'.channel_ids = chandler.channel_ids
            /\ channels' = channels
       /\ pc' = "first" => <<>> \notin chandler'.channel_ids
       /\ pc' = "second" => <<>> \notin phandler'.channel_ids
       /\ parser' # <<>> => <<>> \notin parser'.channel_ids
       /\ (SecondPassCall /\ IsProgramme(Element) /\ ChannelRef(Element) = <<>>) =>
            /\ phandler'.skipped_programs = phandler.skipped_programs
                  + (IF Event.type = "start" /\ Event.name = "programme" THEN 1 ELSE 0)
            /\ phandler'.program_batch = phandler.program_batch
            /\ phandler'.program_count = phandler.program_count
            /\ programs' = programs]_vars

\* A file with a channel of empty id, channel c1, a programme of empty
\* channel and one on c1 has been parsed: one channel, one programme, one skipped.
C24_Witness ==
    /\ ParsedToEnd /\ feed = <<ChEmptyId, Ch1, PEmptyChannel, P1a>>
    /\ parser.channel_count = 1 /\ parser.channel_ids = {C1}
    /\ parser.program_count = 1 /\ parser.skipped_programs = 1

(***************************************************************************)
(* C25, as claimed: an event of a programme element whose channel is not   *)
(* in the channel-id set changes no field of the program handler other     *)
(* than skipped_programs and buffer, and no program row.                   *)
(***************************************************************************)
RejectedSpan ==
    SecondPassCall /\ IsProgramme(Element)
        /\ ChannelRef(Element) \notin phandler.channel_ids

FrameOfRejected(changing) ==
    /\ \A f \in (DOMAIN phandler) \ changing : phandler'[f] = phandler[f]
    /\ programs' = programs

C25_AsClaimed ==
    [][RejectedSpan => FrameOfRejected({"skipped_programs", "buffer"})]_vars

(***************************************************************************)
(* C25, amended: such an event changes no field of the program handler     *)
(* other than skipped_programs, buffer and current_element (the name that  *)
(* startElement records for every element), and no program row: the       *)
(* candidate, the batch and program_count stay as they were; and           *)
(* skipped_programs changes at the open only, by one.                      *)
(***************************************************************************)
C25_RejectedSpanFrame ==
    [][RejectedSpan =>
          /\ FrameOfRejected({"skipped_programs", "buffer", "current_element"})
          /\ phandler'.skipped_programs = phandler.skipped_programs
                + (IF Event.type = "start" /\ Event.name = "programme" THEN 1 ELSE 0)]_vars

\* After an accepted programme of c1 a programme of the undeclared c2 has been
\* read to its close: the candidate and the batch are those of the first.
C25_Witness ==
    /\ pc = "second" /\ AtEndOfStream /\ feed = <<Ch1, P1a, P2>>
    /\ phandler.skipped_programs = 1 /\ phandler.program_count = 1
    /\ Len(phandler.program_batch) = 1
    /\ phandler.program_batch[1].title = <<"T">>
    /\ phandler.current_program.title = <<"T">>

(***************************************************************************)
(* C26, as claimed: the close of an icon element inside a channel element  *)
(* sets the candidate's icon when it has none and leaves it as it is when  *)
(* it has one; so the candidate of a channel element with an icon child    *)
(* has an icon when the channel closes.                                    *)
(***************************************************************************)
IconClose ==
    FirstPassCall /\ IsChannel(Element) /\ Event.type = "end" /\ Event.name = "icon"

HasIconChild(e) == \E k \in 1..Len(e.children) : e.children[k].name = "icon"

C26_FirstIconWins ==
    [][/\ IconClose =>
            IF chandler.current_channel.icon = None
            THEN chandler'.current_channel.icon # None
            ELSE chandler'.current_channel.icon = chandler.current_channel.icon
       /\ (FirstPassCall /\ IsChannel(Element) /\ HasIconChild(Element)
              /\ Event.type = "end" /\ Event.name = "channel") =>
            chandler.current_channel.icon # None]_vars

(***************************************************************************)
(* C27, as claimed: when a call of process_source has returned, the        *)
(* channel_count and program_count of the source's record are the number   *)
(* of channel rows with that source id and the number of program rows on   *)
(* those channels.                                                         *)
(***************************************************************************)
FinishedCall == pc = "idle" /\ Run >= 1 /\ Len(done) = Run

ChannelRowsOf(src) == {c \in channels : c.source_id = src}

ProgramRowsOn(chs) == {p \in programs : p.channel_id \in Ids(chs)}

NoRepeats(f) ==
    /\ \A i, j \in 1..Len(f) :
          (/\ IsChannel(f[i]) /\ IsChannel(f[j])
           /\ Truthy(Get(f[i].attrs, "id", <<>>))
           /\ Get(f[i].attrs, "id", <<>>) = Get(f[j].attrs, "id", <<>>)) => i = j
    /\ \A i, j \in Accepted(f) : KeyOf(f[i]) = KeyOf(f[j]) => i = j

Wiped(srcs, chs, id) ==
    /\ \A s \in srcs : s.id # id
    /\ \A c \in chs : c.source_id # id

C28_WipedBeforeAcquired ==
    [][/\ pc' = "acquire" => Wiped(sources', channels', SourceId(source_url'))
       /\ (pc = "acquire" /\ pc' = "idle" /\ result' = "False") =>
            /\ sources' = sources /\ channels' = channels /\ programs' = programs
            /\ Wiped(sources', channels', SourceId(source_url))
       /\ (pc = "acquire" /\ pc' = "first") =>
            /\ \E s \in sources' :
                  /\ s.id = SourceId(source_url)
                  /\ s.channel_count = 0 /\ s.program_count = 0
                  /\ sources' = sources \cup {s}
            /\ channels' = channels
            /\ \A c \in channels' : c.source_id # SourceId(source_url)]_vars

\* The first call for a source stored its rows; the second call for the same
\* source could not download the file and has returned False: its rows are gone.
C28_Witness ==
    /\ pc = "idle" /\ result = "False" /\ Run = 2 /\ Len(done) = 2
    /\ runs[1].src = runs[2].src
    /\ done[1].clean /\ done[1].channels # {}
    /\ Wiped(sources, channels, runs[2].src)

====
